---- MODULE Spec2Model ----
(***************************************************************************)
(* Model of mavros/param.py: the parameter store of ParamPlugin (the       *)
(* ParamDict cache, the lazy `param` property, call_pull, the change-event *)
(* handler), the three remote-call helpers and the three parameter-file    *)
(* dialects.                                                               *)
(*                                                                         *)
(* Reading of the source.  The model follows Python's semantics of the     *)
(* statements of param.py:                                                 *)
(*  - ParamDict defines __setattr__ as `self[key] = value` (l.163-164), so *)
(*    NO assignment `store.x = v` ever creates an instance attribute: it   *)
(*    stores v in the mapping under "x" and goes on into __setitem__.      *)
(*    Hence `self._parameters._pm = self` (l.233) puts the plugin into the *)
(*    mapping under "_pm", and `self._pm` keeps resolving to the class     *)
(*    attribute `_pm = None` (l.150).                                      *)
(*  - __setitem__ (l.155-158) writes the mapping and then evaluates the    *)
(*    arguments of call_set_parameters, the first being `self._pm._node`:  *)
(*    with `self._pm` None this raises AttributeError before the helper is *)
(*    entered.  (The call itself is ill-formed: `[value]` is positional    *)
(*    after keyword arguments, and the helper's only positional parameter  *)
(*    is `self`; every reading evaluates `self._pm._node` first.)          *)
(*  - collections.UserDict, rclpy and the message types are libraries:     *)
(*    they are modelled by their contract (a fresh ParamDict has an empty  *)
(*    `data` dict; wait_for_service answers True or False; a response      *)
(*    arrives or does not).                                                *)
(***************************************************************************)
EXTENDS Integers, Sequences, FiniteSets, TLC

\* ------------------------------------------------------------------ bounds
MaxValue == 2
MaxEvents == 1
MaxSent == 2
MaxArgs == 2
MaxRows == 3

\* ------------------------------------------------------------------ values
None == "None"
Names == {"A", "B"}
Values == 1 .. MaxValue

\* rclpy Parameter(name, value=...)
Parameter(n, v) == [kind |-> "Parameter", name |-> n, value |-> v]
\* the Parameter objects over given names and values
ParametersOver(names, values) == {Parameter(n, v) : n \in names, v \in values}
\* the ParamPlugin object (stored as a value by l.233)
PLUGIN == [kind |-> "ParamPlugin"]
NoneVal == [kind |-> "NoneType"]
\* the ParamDict object handed out by the `param` property
StoreRef == [kind |-> "ParamDict"]

\* rcl_interfaces ParameterValue carrying an integer
ParameterValue(v) == [kind |-> "ParameterValue", integer_value |-> v]
\* mavros_msgs ParamEvent
ParamEvent(n, v) == [kind |-> "ParamEvent", param_id |-> n, value |-> ParameterValue(v)]

\* Python dicts as functions on their key set
EmptyDict == [k \in {} |-> NoneVal]
DictSet(d, k, v) == [x \in (DOMAIN d) \cup {k} |-> IF x = k THEN v ELSE d[x]]
DictsOver(keys, vals) == UNION {[ks -> vals] : ks \in SUBSET keys}

VARIABLES
    _parameters,  \* ParamPlugin._parameters: None or the ParamDict
    data,         \* ParamDict.data
    _event_sub,   \* ParamPlugin._event_sub
    subscribed,   \* the transport holds ParamDict._event_handler as a callback
    events,       \* ParamEvent messages published and not yet dispatched
    hpc,          \* position of the _event_handler callback
    hmsg,         \* its argument msg
    hparam,       \* the Parameter it converted msg to
    pc,           \* position of the calling flow
    args,         \* arguments / locals of the operation in progress
    ready,        \* local `ready` of the remote call in progress
    lastReq,      \* the last request put on the wire
    nsent,        \* number of requests put on the wire
    result,       \* outcome the finished operation hands to its caller
    remote,       \* the parameters held by the remote side
    cls,          \* class of the ParamFile object, None before it is made
    parameters,   \* ParamFile.parameters
    stamp         \* ParamFile.stamp

vars == <<_parameters, data, _event_sub, subscribed, events, hpc, hmsg, hparam,
          pc, args, ready, lastReq, nsent, result, remote, cls, parameters, stamp>>

storeVars == <<_parameters, data, _event_sub>>
handlerVars == <<hpc, hmsg, hparam>>
wireVars == <<lastReq, nsent>>
fileVars == <<cls, parameters, stamp>>

\* ------------------------------------------------------------ small helpers
NoResult == [op |-> None, exc |-> None, ret |-> NoneVal]
NoArgs == [op |-> None]
NoReq == [srv |-> None]
Returned(op, v) == [op |-> op, exc |-> None, ret |-> v]
Raised(op, e) == [op |-> op, exc |-> e, ret |-> NoneVal]

\* The lock guarding ParamDict.data: the class holds none, and neither
\* __setitem__ nor _event_handler acquires one (l.148-171).
MutexHolder == None

\* `self._pm` inside ParamDict: the class attribute (l.150); __setattr__
\* (l.163-164) never rebinds it, see the head of the module.
Pm == None

\* (mutant) a lookup that answers None for an absent key, as dict.get does
ParamDict_getitem_default(d, op, key) ==
    IF key \in DOMAIN d THEN Returned(op, d[key]) ELSE Returned(op, NoneVal)

\* ParamDict.__getitem__ / __getattr__: self.data[key], KeyError when absent
ParamDict_getitem(d, op, key) ==
    IF key \in DOMAIN d THEN Returned(op, d[key]) ELSE Raised(op, "KeyError")

\* (mutant) a write that rebuilds the mapping from the one entry
ParamDict_setitem_rebuild(d, key, value) == DictSet(EmptyDict, key, value)

\* the mapping write of ParamDict.__setitem__ (l.156)
ParamDict_setitem_write(d, key, value) == DictSet(d, key, value)

\* parameter_from_parameter_value (l.335-338)
parameter_from_parameter_value(name, parameter_value) ==
    Parameter(name, parameter_value.integer_value)

\* (mutant) a handler that keeps an entry the mapping already has
ParamDict_event_setdefault(d, msg, p) ==
    IF msg.param_id \in DOMAIN d THEN d ELSE DictSet(d, msg.param_id, p)

\* the mapping write of ParamDict._event_handler (l.170)
ParamDict_event_write(d, msg, p) == DictSet(d, msg.param_id, p)

\* what call_pull does to the mapping: nothing (l.209-225 never touch
\* self._parameters; ParamDict.reset is not called anywhere)
call_pull_data(d, resp) == d

\* ParamPull.Response of the remote side
PullResponse(rem) ==
    [kind |-> "ParamPull.Response", success |-> TRUE,
     param_received |-> Cardinality(DOMAIN rem)]

\* ------------------------------------------------------------------- Init
Init ==
    /\ _parameters = None
    /\ data = EmptyDict
    /\ _event_sub = None
    /\ subscribed = FALSE
    /\ events = << >>
    /\ hpc = "idle"
    /\ hmsg = NoneVal
    /\ hparam = NoneVal
    /\ pc = "idle"
    /\ args = NoArgs
    /\ ready = FALSE
    /\ lastReq = NoReq
    /\ nsent = 0
    /\ result = NoResult
    /\ remote \in DictsOver(Names, Values)
    /\ cls = None
    /\ parameters = NoneVal
    /\ stamp = None

\* ------------------------------------------------- ParamPlugin.param (l.227-239)
\* First access: construct the ParamDict (l.232), then `._pm = self` (l.233),
\* which is ParamDict.__setattr__ -> __setitem__: the plugin is written into
\* the mapping under "_pm" and the evaluation of `self._pm._node` raises
\* AttributeError.  Lines 235-239 (subscribe, call_pull, return) are not
\* reached; self._parameters was already assigned by l.232.
Param ==
    /\ pc = "idle"
    /\ IF _parameters # None
       THEN /\ result' = Returned("param", StoreRef)
            /\ UNCHANGED storeVars
       ELSE /\ _parameters' = "ParamDict"
            /\ data' = ParamDict_setitem_write(EmptyDict, "_pm", PLUGIN)
            /\ result' = IF Pm = None THEN Raised("param", "AttributeError")
                                      ELSE Returned("param", StoreRef)
            /\ UNCHANGED _event_sub
    /\ pc' = "done"
    /\ UNCHANGED <<subscribed, events, handlerVars, args, ready, wireVars, remote, fileVars>>

\* (mutant) a lookup that enters a default for an absent key, as a
\* defaultdict does
GetItem_setdefault(key) ==
    /\ pc = "idle"
    /\ _parameters # None
    /\ args' = [op |-> "getitem", key |-> key]
    /\ data' = IF key \in DOMAIN data THEN data ELSE DictSet(data, key, NoneVal)
    /\ result' = Returned("getitem", data'[key])
    /\ pc' = "done"
    /\ UNCHANGED <<_parameters, _event_sub, subscribed, events, handlerVars,
                   ready, wireVars, remote, fileVars>>

\* ------------------------------------------- ParamDict.__getitem__ (l.152-153)
GetItem(key) ==
    /\ pc = "idle"
    /\ _parameters # None
    /\ args' = [op |-> "getitem", key |-> key]
    /\ result' = ParamDict_getitem(data, "getitem", key)
    /\ pc' = "done"
    /\ UNCHANGED <<storeVars, subscribed, events, handlerVars, ready, wireVars,
                   remote, fileVars>>

\* ------------------------------------------- ParamDict.__getattr__ (l.160-161)
\* Python calls __getattr__ only for names the normal lookup does not find:
\* the parameter names, not "_pm" or "data".
GetAttr(key) ==
    /\ pc = "idle"
    /\ _parameters # None
    /\ args' = [op |-> "getattr", key |-> key]
    /\ result' = ParamDict_getitem(data, "getattr", key)
    /\ pc' = "done"
    /\ UNCHANGED <<storeVars, subscribed, events, handlerVars, ready, wireVars,
                   remote, fileVars>>

\* ------------------------------------------- ParamDict.__setitem__ (l.155-158)
\* l.156: the write
SetItemWrite(op, key, value) ==
    /\ pc = "idle"
    /\ _parameters # None
    /\ data' = ParamDict_setitem_write(data, key, value)
    /\ args' = [op |-> op, key |-> key, value |-> value]
    /\ pc' = "setitem_call"
    /\ UNCHANGED <<_parameters, _event_sub, subscribed, events, handlerVars,
                   ready, wireVars, result, remote, fileVars>>

SetItem(key, value) == SetItemWrite("setitem", key, value)

\* ParamDict.__setattr__ (l.163-164): self[key] = value
SetAttr(key, value) == SetItemWrite("setattr", key, value)

\* l.157-158: the arguments of call_set_parameters are evaluated;
\* `self._pm._node` raises AttributeError because self._pm is None.
SetItemCall ==
    /\ pc = "setitem_call"
    /\ Pm = None
    /\ result' = Raised(args.op, "AttributeError")
    /\ pc' = "done"
    /\ UNCHANGED <<storeVars, subscribed, events, handlerVars, args, ready,
                   wireVars, remote, fileVars>>

\* ------------------------------------------------ ParamDict.reset (l.166-167)
\* `def reset():` takes no self: store.reset() raises TypeError before its
\* body runs.
Reset ==
    /\ pc = "idle"
    /\ _parameters # None
    /\ result' = Raised("reset", "TypeError")
    /\ pc' = "done"
    /\ UNCHANGED <<storeVars, subscribed, events, handlerVars, args, ready,
                   wireVars, remote, fileVars>>

\* --------------------------------------- ParamPlugin.call_pull (l.209-225)
\* l.212: ready = self.pull.wait_for_service(timeout_sec=self.timeout_sec)
CallPullWait(force_pull) ==
    /\ pc = "idle"
    /\ \E r \in BOOLEAN : ready' = r
    /\ args' = [op |-> "call_pull", force_pull |-> force_pull]
    /\ pc' = "pull_ready"
    /\ UNCHANGED <<storeVars, subscribed, events, handlerVars, wireVars,
                   result, remote, fileVars>>

\* l.213-214: if not ready: raise ServiceWaitTimeout()
CallPullTimeout ==
    /\ pc = "pull_ready"
    /\ ~ready
    /\ result' = Raised("call_pull", "ServiceWaitTimeout")
    /\ pc' = "done"
    /\ UNCHANGED <<storeVars, subscribed, events, handlerVars, args, ready,
                   wireVars, remote, fileVars>>

\* (mutant) the request goes out whatever wait_for_service answered
CallPullSend_unchecked ==
    /\ pc = "pull_ready"
    /\ nsent < MaxSent
    /\ lastReq' = [srv |-> "pull", force_pull |-> args.force_pull]
    /\ nsent' = nsent + 1
    /\ pc' = "pull_spin"
    /\ UNCHANGED <<storeVars, subscribed, events, handlerVars, args, ready,
                   result, remote, fileVars>>

\* l.216-219: build the request and call_async
CallPullSend ==
    /\ pc = "pull_ready"
    /\ ready
    /\ nsent < MaxSent
    /\ lastReq' = [srv |-> "pull", force_pull |-> args.force_pull]
    /\ nsent' = nsent + 1
    /\ pc' = "pull_spin"
    /\ UNCHANGED <<storeVars, subscribed, events, handlerVars, args, ready,
                   result, remote, fileVars>>

\* l.220-225: spin_until_future_complete returns when the response is there;
\* the response is logged and returned.
CallPullReturn ==
    /\ pc = "pull_spin"
    /\ data' = call_pull_data(data, PullResponse(remote))
    /\ result' = Returned("call_pull", PullResponse(remote))
    /\ pc' = "done"
    /\ UNCHANGED <<_parameters, _event_sub, subscribed, events, handlerVars,
                   args, ready, wireVars, remote, fileVars>>

\* ----------------------------------- ParamPlugin.subscribe_events (l.197-207)
\* A caller registers the store's _event_handler with the transport. (The
\* `param` property would do it at l.235-236, which it never reaches.)
SubscribeEvents ==
    /\ pc = "idle"
    /\ _parameters # None
    /\ ~subscribed
    /\ subscribed' = TRUE
    /\ result' = Returned("subscribe_events", [kind |-> "Subscription"])
    /\ pc' = "done"
    /\ UNCHANGED <<storeVars, events, handlerVars, args, ready, wireVars, remote, fileVars>>

\* the caller takes the outcome of the finished operation
Return ==
    /\ pc = "done"
    /\ pc' = "idle"
    /\ result' = NoResult
    /\ args' = NoArgs
    /\ UNCHANGED <<storeVars, subscribed, events, handlerVars, ready, wireVars,
                   remote, fileVars>>

\* -------------------------------------- ParamDict._event_handler (l.169-171)
\* The right-hand side is evaluated first: the message becomes a Parameter.
EventConvert ==
    /\ hpc = "idle"
    /\ subscribed
    /\ events # << >>
    /\ hmsg' = Head(events)
    /\ hparam' = parameter_from_parameter_value(Head(events).param_id,
                                                Head(events).value)
    /\ events' = Tail(events)
    /\ hpc' = "store"
    /\ UNCHANGED <<storeVars, subscribed, pc, args, ready, wireVars, result,
                   remote, fileVars>>

\* then self.data[msg.param_id] is assigned
EventStore ==
    /\ hpc = "store"
    /\ data' = ParamDict_event_write(data, hmsg, hparam)
    /\ hpc' = "idle"
    /\ hmsg' = NoneVal
    /\ hparam' = NoneVal
    /\ UNCHANGED <<_parameters, _event_sub, subscribed, events, pc, args,
                   ready, wireVars, result, remote, fileVars>>

\* ------------------------------------------------------------ the remote side
\* A parameter changes on the remote side; subscribers are sent a ParamEvent.
RemoteChange(n, v) ==
    /\ subscribed => Len(events) < MaxEvents
    /\ remote' = DictSet(remote, n, v)
    /\ events' = IF subscribed THEN Append(events, ParamEvent(n, v)) ELSE events
    /\ UNCHANGED <<storeVars, subscribed, handlerVars, pc, args, ready,
                   wireVars, result, fileVars>>

Next ==
    \/ Param
    \/ \E key \in Names \cup {"_pm"} : GetItem(key)
    \/ \E key \in Names : GetAttr(key)
    \/ \E key \in Names, value \in ParametersOver(Names, Values) : SetItem(key, value)
    \/ \E key \in Names, value \in ParametersOver(Names, Values) : SetAttr(key, value)
    \/ SetItemCall
    \/ Reset
    \/ \E f \in BOOLEAN : CallPullWait(f)
    \/ CallPullTimeout
    \/ CallPullSend
    \/ CallPullReturn
    \/ SubscribeEvents
    \/ Return
    \/ EventConvert
    \/ EventStore
    \/ \E n \in Names, v \in Values : RemoteChange(n, v)

Spec == Init /\ [][Next]_vars

\* The store with its local steps fair: the executor dispatches a pending
\* callback and runs it to its end, and a call that has waited for its
\* service goes on to raise or to send.  Nothing is assumed of the remote
\* side: it may change no parameter and may leave a request unanswered.
FairSpec ==
    /\ Spec
    /\ WF_vars(EventConvert)
    /\ WF_vars(EventStore)
    /\ WF_vars(SetItemCall)
    /\ WF_vars(CallPullTimeout)
    /\ WF_vars(CallPullSend)

\* ---------------------------------------------------------------------------
\* The remote-call helpers (l.242-332).  Each takes a client handle or a node
\* name, waits for the service, builds the request, sends it, spins until the
\* response is there and returns what it extracts from the response.
\* ---------------------------------------------------------------------------
SeqsUpTo(S, n) ==
    LET F[k \in 0 .. n] ==
            IF k = 0 THEN {<< >>}
            ELSE F[k - 1] \cup {Append(q, x) : q \in F[k - 1], x \in S}
    IN  F[n]
Range(f) == {f[i] : i \in DOMAIN f}
\* dict(zip(keys, vals)): a later pair overrides an earlier one with its key
DictZip(keys, vals) ==
    LET n == IF Len(keys) < Len(vals) THEN Len(keys) ELSE Len(vals)
        last(k) == CHOOSE i \in 1 .. n :
                      keys[i] = k /\ \A j \in 1 .. n : keys[j] = k => j <= i
    IN  [k \in {keys[i] : i \in 1 .. n} |-> vals[last(k)]]

\* rclpy Parameter.to_parameter_msg
to_parameter_msg(p) ==
    [kind |-> "ParameterMsg", name |-> p.name, value |-> ParameterValue(p.value)]

\* requests as built at l.260-261, l.291-292, l.323-324
ListRequest(a) == [srv |-> "list_parameters", prefixes |-> a.prefixes]
GetRequest(a) == [srv |-> "get_parameters", names |-> a.names]
SetRequest(a) ==
    [srv |-> "set_parameters",
     parameters |-> [i \in DOMAIN a.parameters |-> to_parameter_msg(a.parameters[i])]]

\* the remote side's answers
NameOrder == <<"A", "B">>
SortedNames(S) ==
    LET F[i \in 0 .. Len(NameOrder)] ==
            IF i = 0 THEN << >>
            ELSE IF NameOrder[i] \in S THEN Append(F[i - 1], NameOrder[i])
                 ELSE F[i - 1]
    IN  F[Len(NameOrder)]
RemoteList(rem, req) ==
    SortedNames({n \in DOMAIN rem : req.prefixes = << >> \/ n \in Range(req.prefixes)})
RemoteGet(rem, req) ==
    [i \in DOMAIN req.names |->
        IF req.names[i] \in DOMAIN rem
        THEN ParameterValue(rem[req.names[i]])
        ELSE [kind |-> "ParameterValue", not_set |-> TRUE]]
RemoteSetResults(req) ==
    [i \in DOMAIN req.parameters |-> [kind |-> "SetParametersResult", successful |-> TRUE]]
RemoteAfterSet(rem, req) ==
    LET F[i \in 0 .. Len(req.parameters)] ==
            IF i = 0 THEN rem
            ELSE DictSet(F[i - 1], req.parameters[i].name,
                         req.parameters[i].value.integer_value)
    IN  F[Len(req.parameters)]

\* what the helpers return (l.269, l.300, l.332)
ListReturn(a, rem) == RemoteList(rem, ListRequest(a))
GetReturn(a, rem) == DictZip(a.names, RemoteGet(rem, GetRequest(a)))
SetReturn(a) ==
    DictZip([i \in DOMAIN a.parameters |-> a.parameters[i].name],
            RemoteSetResults(SetRequest(a)))

\* l.250-255 (and 281-286, 313-318): resolve the client, then
\* ready = client.wait_for_service(timeout_sec=TIMEOUT)
HelperWait(op, a) ==
    /\ pc = "idle"
    /\ args' = a
    /\ IF a.client = None /\ a.node_name = None
       THEN /\ result' = Raised(op, "AssertionError")
            /\ pc' = "done"
            /\ UNCHANGED ready
       ELSE /\ \E r \in BOOLEAN : ready' = r
            /\ pc' = "helper_ready"
            /\ UNCHANGED result
    /\ UNCHANGED <<storeVars, subscribed, events, handlerVars, wireVars, remote, fileVars>>

\* l.256-258: if not ready: log and raise ServiceWaitTimeout()
HelperTimeout(op) ==
    /\ pc = "helper_ready"
    /\ args.op = op
    /\ ~ready
    /\ result' = Raised(op, "ServiceWaitTimeout")
    /\ pc' = "done"
    /\ UNCHANGED <<storeVars, subscribed, events, handlerVars, args, ready,
                   wireVars, remote, fileVars>>

\* (mutant) the request goes out whatever wait_for_service answered
HelperSend_unchecked(op, req) ==
    /\ pc = "helper_ready"
    /\ args.op = op
    /\ nsent < MaxSent
    /\ lastReq' = req
    /\ nsent' = nsent + 1
    /\ pc' = "helper_spin"
    /\ UNCHANGED <<storeVars, subscribed, events, handlerVars, args, ready,
                   result, remote, fileVars>>

\* l.260-263: build the request, client.call_async(req)
HelperSend(op, req) ==
    /\ pc = "helper_ready"
    /\ args.op = op
    /\ ready
    /\ nsent < MaxSent
    /\ lastReq' = req
    /\ nsent' = nsent + 1
    /\ pc' = "helper_spin"
    /\ UNCHANGED <<storeVars, subscribed, events, handlerVars, args, ready,
                   result, remote, fileVars>>

\* l.264-269: the response arrives, the helper returns
HelperReturn(op, ret, rem) ==
    /\ pc = "helper_spin"
    /\ args.op = op
    /\ result' = Returned(op, ret)
    /\ remote' = rem
    /\ pc' = "done"
    /\ UNCHANGED <<storeVars, subscribed, events, handlerVars, args, ready,
                   wireVars, fileVars>>

\* the `client` and `node_name` keyword arguments of the helpers
Clients == {None, "Client"}
NodeNames == {None, "node"}

\* call_list_parameters (l.242-269)
CallListWait(client, node_name, prefixes) ==
    HelperWait("call_list_parameters",
               [op |-> "call_list_parameters", client |-> client,
                node_name |-> node_name, prefixes |-> prefixes])
CallListTimeout == HelperTimeout("call_list_parameters")
CallListSend == HelperSend("call_list_parameters", ListRequest(args))
CallListReturn ==
    HelperReturn("call_list_parameters", ListReturn(args, remote), remote)

\* call_get_parameters (l.272-300)
CallGetWait(client, node_name, names) ==
    HelperWait("call_get_parameters",
               [op |-> "call_get_parameters", client |-> client,
                node_name |-> node_name, names |-> names])
CallGetTimeout == HelperTimeout("call_get_parameters")
CallGetSend == HelperSend("call_get_parameters", GetRequest(args))
CallGetReturn ==
    HelperReturn("call_get_parameters", GetReturn(args, remote), remote)

\* call_set_parameters (l.303-332)
CallSetWait(client, node_name, params) ==
    HelperWait("call_set_parameters",
               [op |-> "call_set_parameters", client |-> client,
                node_name |-> node_name, parameters |-> params])
CallSetTimeout == HelperTimeout("call_set_parameters")
CallSetSend == HelperSend("call_set_parameters", SetRequest(args))
CallSetReturn ==
    HelperReturn("call_set_parameters", SetReturn(args),
                 RemoteAfterSet(remote, SetRequest(args)))

HelperNext ==
    \/ \E client \in Clients, node_name \in NodeNames, prefixes \in SeqsUpTo(Names, MaxArgs) :
           CallListWait(client, node_name, prefixes)
    \/ CallListTimeout
    \/ CallListSend
    \/ CallListReturn
    \/ \E client \in Clients, node_name \in NodeNames, names \in SeqsUpTo(Names, MaxArgs) :
           CallGetWait(client, node_name, names)
    \/ CallGetTimeout
    \/ CallGetSend
    \/ CallGetReturn
    \/ \E client \in Clients, node_name \in NodeNames,
          params \in SeqsUpTo(ParametersOver(Names, Values), MaxArgs) :
           CallSetWait(client, node_name, params)
    \/ CallSetTimeout
    \/ CallSetSend
    \/ CallSetReturn
    \/ Return

HelperSpec == Init /\ [][HelperNext]_vars

\* ---------------------------------------------------------------------------
\* Parameter files (l.29-141).  A text is what csv.reader yields for it: a
\* sequence of rows, a row a sequence of fields, a field a sequence of
\* characters.
\* ---------------------------------------------------------------------------
Digits == <<"0", "1", "2", "3", "4", "5", "6", "7", "8", "9">>
IsDigit(c) == \E i \in DOMAIN Digits : Digits[i] = c
DigitVal(c) == (CHOOSE i \in DOMAIN Digits : Digits[i] = c) - 1
NatOf(s) ==
    LET F[i \in 0 .. Len(s)] == IF i = 0 THEN 0 ELSE F[i - 1] * 10 + DigitVal(s[i])
    IN  F[Len(s)]
AllDigits(s) == \A i \in DOMAIN s : IsDigit(s[i])

\* str.strip()
LStrip(s) ==
    LET F[i \in 0 .. Len(s)] ==
            IF i = Len(s) THEN << >>
            ELSE IF s[i + 1] = " " THEN F[i + 1]
                 ELSE SubSeq(s, i + 1, Len(s))
    IN  F[0]
RStrip(s) ==
    LET F[i \in 0 .. Len(s)] ==
            IF i = 0 THEN << >>
            ELSE IF s[i] = " " THEN F[i - 1]
                 ELSE SubSeq(s, 1, i)
    IN  F[Len(s)]
Strip(s) == RStrip(LStrip(s))

\* str.startswith('#')
StartsWithHash(s) == Len(s) > 0 /\ s[1] = "#"
\* '.' in x
HasDot(s) == \E i \in DOMAIN s : s[i] = "."

Signed(s) == Len(s) > 0 /\ s[1] \in {"+", "-"}
Unsigned(s) == IF Signed(s) THEN Tail(s) ELSE s

\* Python values
PyInt(v) == [kind |-> "int", v |-> v]
\* a float written in decimal: (-1)^neg * num * 10^-exp, exp minimal
RECURSIVE Normal(_, _)
Normal(num, exp) ==
    IF exp > 0 /\ num % 10 = 0 THEN Normal(num \div 10, exp - 1)
    ELSE [num |-> num, exp |-> exp]
PyFloat(neg, num, exp) ==
    [kind |-> "float", neg |-> neg, num |-> Normal(num, exp).num,
     exp |-> Normal(num, exp).exp]
ValueErr == [kind |-> "ValueError"]

\* int(x): optional blanks, optional sign, decimal digits
int(x) ==
    LET t == Strip(x)
        u == Unsigned(t)
    IN  IF Len(u) > 0 /\ AllDigits(u)
        THEN PyInt(IF Signed(t) /\ t[1] = "-" THEN 0 - NatOf(u) ELSE NatOf(u))
        ELSE ValueErr

\* float(x) for a token with a decimal point: optional blanks, optional sign,
\* digits with one point among them
float(x) ==
    LET t == Strip(x)
        u == Unsigned(t)
        dot == CHOOSE i \in DOMAIN u : u[i] = "."
        ip == SubSeq(u, 1, dot - 1)
        fp == SubSeq(u, dot + 1, Len(u))
    IN  IF /\ HasDot(u)
           /\ AllDigits(ip) /\ AllDigits(fp)
           /\ Len(ip) + Len(fp) > 0
        THEN PyFloat(Signed(t) /\ t[1] = "-", NatOf(ip \o fp), Len(fp))
        ELSE ValueErr

\* (mutant) every token is read as an integer
to_numeric_int_only(x) == int(x)

\* to_numeric = lambda x: float(x) if '.' in x else int(x)   (l.56, l.100)
to_numeric(x) == IF HasDot(x) THEN float(x) ELSE int(x)

\* the three ParamFile classes
Classes == {"MavProxyParam", "MissionPlannerParam", "QGroundControlParam"}
\* (mutant) the tab format checked against the two-field rule
FieldCount_two(c) == 2
\* l.62 (inherited by MissionPlannerParam) and l.106
FieldCount(c) == IF c = "QGroundControlParam" THEN 5 ELSE 2
\* l.65 and l.109: data[0], data[1] resp. data[2], data[3]
NameIndex(c) == IF c = "QGroundControlParam" THEN 3 ELSE 1
ValueIndex(c) == IF c = "QGroundControlParam" THEN 4 ELSE 2

\* (mutant) a row is counted before it is looked at for the comment mark
ParseRow_count_first(c, row) ==
    IF Len(row) = 0 THEN [kind |-> "IndexError"]
    ELSE IF Len(row) # FieldCount(c) THEN ValueErr
    ELSE IF StartsWithHash(row[1]) THEN [kind |-> "skip"]
    ELSE IF to_numeric(row[ValueIndex(c)]).kind = "ValueError" THEN ValueErr
    ELSE Parameter(Strip(row[NameIndex(c)]), to_numeric(row[ValueIndex(c)]))

\* One row of _parse_param_file (l.59-65, l.103-109): "skip", a Parameter,
\* or the exception raised.  data[0] of an empty row raises IndexError.
ParseRow(c, row) ==
    IF Len(row) = 0 THEN [kind |-> "IndexError"]
    ELSE IF StartsWithHash(row[1]) THEN [kind |-> "skip"]
    ELSE IF Len(row) # FieldCount(c) THEN ValueErr
    ELSE IF to_numeric(row[ValueIndex(c)]).kind = "ValueError" THEN ValueErr
    ELSE Parameter(Strip(row[NameIndex(c)]), to_numeric(row[ValueIndex(c)]))

\* a dict of Parameters by name, in insertion order: the sequence of its
\* values
PyDict(items) == [kind |-> "dict", items |-> items]

\* {p.name: p for p in ...}: a dict in insertion order, as the sequence of
\* its values; a repeated name keeps its place and takes the new value.
OrderedSet(d, p) ==
    IF \E i \in DOMAIN d : d[i].name = p.name
    THEN [i \in DOMAIN d |-> IF d[i].name = p.name THEN p ELSE d[i]]
    ELSE Append(d, p)

\* (mutant) a load that keeps what it collected when a row raises
RECURSIVE ParseFile_partial(_, _, _)
ParseFile_partial(c, rows, acc) ==
    IF rows = << >> THEN [exc |-> None, parameters |-> acc]
    ELSE LET r == ParseRow(c, Head(rows))
         IN  IF r.kind \in {"IndexError", "ValueError"}
             THEN [exc |-> r.kind, parameters |-> acc]
             ELSE IF r.kind = "skip" THEN ParseFile_partial(c, Tail(rows), acc)
             ELSE ParseFile_partial(c, Tail(rows), OrderedSet(acc, r))

\* The dict comprehension of load over the generator (l.68, l.112): the
\* first row that raises ends it, and nothing is assigned.
RECURSIVE ParseFile(_, _, _)
ParseFile(c, rows, acc) ==
    IF rows = << >> THEN [exc |-> None, parameters |-> acc]
    ELSE LET r == ParseRow(c, Head(rows))
         IN  IF r.kind \in {"IndexError", "ValueError"}
             THEN [exc |-> r.kind, parameters |-> None]
             ELSE IF r.kind = "skip" THEN ParseFile(c, Tail(rows), acc)
             ELSE ParseFile(c, Tail(rows), OrderedSet(acc, r))

\* the texts loaded, of one to MaxRows rows: rows of the class's shape with good and bad value
\* tokens, rows one field short or long, comment rows, the empty row
NameTokens == {<<"A">>, <<"B">>, <<"A", " ">>}
ValueTokens == {<<"1">>, <<"-", "2">>, <<"2", ".", "5">>, <<"x">>}
ShapedRow(c, n, v) ==
    IF c = "QGroundControlParam" THEN <<(<<"1">>), (<<"1">>), n, v, (<<"6">>)>>
    ELSE <<n, v>>
Rows(c) ==
    {ShapedRow(c, n, v) : n \in {<<"A">>, <<"B">>}, v \in ValueTokens}
    \cup {ShapedRow(c, <<"A", " ">>, <<"1">>), ShapedRow(c, <<"A">>, <<".">>)}
    \cup {SubSeq(ShapedRow(c, <<"A">>, <<"1">>), 1, FieldCount(c) - 1),
          Append(ShapedRow(c, <<"A">>, <<"1">>), << >>)}
    \cup {<<(<<"#">>)>>, <<(<<"#", "N">>), (<<"1">>), (<<"x">>)>>}
    \cup {<< >>}
Texts(c) == SeqsUpTo(Rows(c), MaxRows) \ {<< >>}

\* a ParamFile object of class c is made; parameters and stamp are the class
\* attributes None (l.32-33)
NewParamFile(c) ==
    /\ pc = "idle"
    /\ cls = None
    /\ cls' = c
    /\ parameters' = NoneVal
    /\ stamp' = None
    /\ UNCHANGED <<storeVars, subscribed, events, handlerVars, pc, args, ready,
                   wireVars, result, remote>>

\* load (l.67-68, l.111-112)
Load(text) ==
    /\ pc = "idle"
    /\ cls # None
    /\ args' = [op |-> "load", text |-> text, before |-> parameters]
    /\ LET r == ParseFile(cls, text, << >>)
       IN  /\ parameters' = IF r.exc = None THEN PyDict(r.parameters) ELSE parameters
           /\ result' = IF r.exc = None THEN Returned("load", NoneVal)
                                        ELSE Raised("load", r.exc)
    /\ pc' = "done"
    /\ UNCHANGED <<storeVars, subscribed, events, handlerVars, ready, wireVars,
                   remote, cls, stamp>>

\* a caller loads some text
LoadAny ==
    /\ pc = "idle"
    /\ cls # None
    /\ \E text \in Texts(cls) : Load(text)

\* ------------------------------------------------------------------- save
\* ParamFile.tgt_system, ParamFile.tgt_component (l.34-35)
tgt_system == 1
tgt_component == 1

PyStr(s) == [kind |-> "str", s |-> s]

\* str() of a number, as csv.writer applies it to a field that is no string
RECURSIVE StrNat(_)
StrNat(n) ==
    IF n < 10 THEN <<Digits[n + 1]>>
    ELSE Append(StrNat(n \div 10), Digits[(n % 10) + 1])
RECURSIVE Pow10(_)
Pow10(e) == IF e = 0 THEN 1 ELSE 10 * Pow10(e - 1)
RECURSIVE ZFill(_, _)
ZFill(t, w) == IF Len(t) >= w THEN t ELSE ZFill(<<"0">> \o t, w)
str(x) ==
    IF x.kind = "int"
    THEN IF x.v < 0 THEN <<"-">> \o StrNat(0 - x.v) ELSE StrNat(x.v)
    ELSE (IF x.neg THEN <<"-">> ELSE << >>)
         \o StrNat(x.num \div Pow10(x.exp)) \o <<".">>
         \o (IF x.exp = 0 THEN <<"0">>
             ELSE ZFill(StrNat(x.num % Pow10(x.exp)), x.exp))

\* to_type of QGroundControlParam.save (l.115-121)
to_type(x) ==
    IF x.kind = "float" THEN PyInt(9)
    ELSE IF x.kind = "int" THEN PyInt(6)
    ELSE ValueErr

\* `for p in self.parameters` (l.76, l.134): iterating a dict yields its
\* keys, the names, which are strings
Iter(d) == [i \in DOMAIN d |-> PyStr(d[i].name)]

\* the tuple handed to writer.writerow for one p (l.77, l.135-141); `p.name`
\* of a string raises AttributeError
RowOf(c, p) ==
    IF p.kind # "Parameter" THEN [kind |-> "AttributeError"]
    ELSE IF c # "QGroundControlParam"
    THEN [kind |-> "row", row |-> <<p.name, str(p.value)>>]
    ELSE IF to_type(p.value) = ValueErr THEN ValueErr
    ELSE [kind |-> "row",
          row |-> <<str(PyInt(tgt_system)), str(PyInt(tgt_component)), p.name,
                    str(p.value), str(to_type(p.value))>>]

\* the loop over the parameters: one row each, until a row raises
RECURSIVE WriteRows(_, _, _)
WriteRows(c, items, out) ==
    IF items = << >> THEN [exc |-> None, file_ |-> out]
    ELSE LET r == RowOf(c, Head(items))
         IN  IF r.kind # "row" THEN [exc |-> r.kind, file_ |-> out]
             ELSE WriteRows(c, Tail(items), Append(out, r.row))

\* the three header rows of QGroundControlParam.save (l.126-133), one field,
\* one field, five fields
QgcHeader(st) ==
    << <<(<<"#", " NOTE: ", st>>)>>,
       <<(<<"#", " Onboard parameters saved by mavparam for (1.1)">>)>>,
       <<(<<"#", " MAV ID">>), (<<"COMPONENT ID">>), (<<"PARAM NAME">>),
         (<<"VALUE">>), (<<"(TYPE)">>)>> >>

\* (mutant) a save that writes the rows of the values of the dict
save_values(c, params, st) ==
    IF params = NoneVal THEN [exc |-> "TypeError", file_ |-> << >>]
    ELSE WriteRows(c, params.items,
                   IF c = "QGroundControlParam" THEN QgcHeader(st) ELSE << >>)

\* save, as the rows it leaves in file_ and the exception it ends with.
\* MavProxyParam.save (l.70-77, inherited by MissionPlannerParam) writes its
\* header with `file_.writerow(...)` (l.75): file_ is a text file, which has
\* no writerow, so AttributeError is raised before anything is written.
\* QGroundControlParam.save (l.114-141) writes its header through the
\* writer and then iterates self.parameters: None raises TypeError.
save(c, params, st) ==
    IF c # "QGroundControlParam" THEN [exc |-> "AttributeError", file_ |-> << >>]
    ELSE IF params = NoneVal THEN [exc |-> "TypeError", file_ |-> QgcHeader(st)]
    ELSE WriteRows(c, Iter(params.items), QgcHeader(st))

\* save(file_) on an empty text file; l.71-72 and l.123-124 set the stamp
Save ==
    /\ pc = "idle"
    /\ cls # None
    /\ stamp' = IF stamp = None THEN "now" ELSE stamp
    /\ LET r == save(cls, parameters, stamp')
       IN  /\ args' = [op |-> "save", file_ |-> r.file_]
           /\ result' = IF r.exc = None THEN Returned("save", NoneVal)
                                        ELSE Raised("save", r.exc)
    /\ pc' = "done"
    /\ UNCHANGED <<storeVars, subscribed, events, handlerVars, ready, wireVars,
                   remote, cls, parameters>>

FileNext ==
    \/ \E c \in Classes : NewParamFile(c)
    \/ LoadAny
    \/ Save
    \/ Return

FileInit == Init /\ remote = EmptyDict

FileSpec == FileInit /\ [][FileNext]_vars

\* The parser alone: each text is loaded into a file object that has not
\* loaded or saved before.
LoadFresh ==
    /\ parameters = NoneVal
    /\ stamp = None
    /\ LoadAny

ParseNext ==
    \/ \E c \in Classes : NewParamFile(c)
    \/ LoadFresh
    \/ Return

ParseSpec == FileInit /\ [][ParseNext]_vars

\* ===========================================================================
\* Claims about the parameter store (specification Spec)
\* ===========================================================================
InStore == Names \cap DOMAIN data
FetchedDict(rem) == [n \in DOMAIN rem |-> Parameter(n, rem[n])]
StoreParams(d) == [n \in Names \cap DOMAIN d |-> d[n]]
\* the step is the mapping write of a set of n
SetWriteOn(n) == pc = "idle" /\ pc' = "setitem_call" /\ args'.key = n

\* C1: after a successful pull the store's parameters are exactly the set the
\* remote holds: entries not fetched are gone, every fetched entry is present.
\* (Stated on the step in which call_pull returns the response.)
C1_PullReplaces ==
    [][(pc = "pull_spin" /\ pc' = "done" /\ _parameters # None)
          => StoreParams(data') = FetchedDict(remote)]_vars

\* C2: every set(name, value) that has run to its end wrote the cache entry
\* and then issued one set-request carrying exactly the one changed parameter.
C2_SetSendsOneParameter ==
    (pc = "done" /\ result.op \in {"setitem", "setattr"})
        => /\ result.exc = None
           /\ lastReq = [srv |-> "set_parameters",
                         parameters |-> <<to_parameter_msg(args.value)>>]

\* C3: the change-event handler overwrites the cache entry of the event's
\* name with the event's value whatever the entry was, leaves every other
\* entry unchanged and sends no request.
C3_EventOverwrites ==
    [][(hpc = "store" /\ hpc' = "idle")
          => /\ data' = DictSet(data, hmsg.param_id,
                                Parameter(hmsg.param_id, hmsg.value.integer_value))
             /\ lastReq' = lastReq
             /\ nsent' = nsent]_vars

\* C3 witness: a set of "A" by the store is still in progress and the entry
\* it wrote has already been overwritten by an event, next to another entry.
C3_Witness ==
    /\ pc = "setitem_call"
    /\ hpc = "idle"
    /\ args.key = "A"
    /\ "A" \in DOMAIN data
    /\ data["A"] # args.value
    /\ "B" \in DOMAIN data

\* C4 (as stated): the mapping write of set and the mapping write of the
\* event handler happen with the one mutex held.
C4_WritesHoldMutex ==
    [][((pc = "idle" /\ pc' = "setitem_call") \/ (hpc = "store" /\ hpc' = "idle"))
          => MutexHolder # None]_vars

\* C4 (amended): no mutex is involved; each of the two writes is one dict
\* item assignment.  In every interleaving a step applies at most one of them,
\* no entry is lost, and each entry holds the value of the write applied to it
\* last (the set's value, the event's value, or what it held before).
C4_LastWriteWins ==
    [][LET setW == pc = "idle" /\ pc' = "setitem_call"
           evW == hpc = "store" /\ hpc' = "idle"
       IN  /\ ~(setW /\ evW)
           /\ DOMAIN data \subseteq DOMAIN data'
           /\ \A k \in DOMAIN data' :
                 IF setW /\ args'.key = k
                 THEN data'[k] = args'.value
                 ELSE IF evW /\ hmsg.param_id = k
                 THEN data'[k] = Parameter(k, hmsg.value.integer_value)
                 ELSE IF k \in DOMAIN data
                 THEN data'[k] = data[k]
                 ELSE _parameters = None /\ k = "_pm"]_vars

\* C4 witness: set("A", v) has written and is still in progress while the
\* handler holds an event for "A" with another value, about to be stored.
C4_Witness ==
    /\ pc = "setitem_call"
    /\ hpc = "store"
    /\ args.key = "A"
    /\ hmsg.param_id = "A"
    /\ args.value.name = "A"
    /\ args.value # hparam
    /\ data["A"] = args.value

\* C5: an access to `param` that has run to its end has handed out the store,
\* with the subscription started and a pull performed.
C5_FirstAccessSubscribesAndPulls ==
    (pc = "done" /\ result.op = "param")
        => /\ result = Returned("param", StoreRef)
           /\ _event_sub # None
           /\ subscribed
           /\ lastReq.srv = "pull"

\* C6: when the pull endpoint is not ready within the timeout, call_pull
\* raises ServiceWaitTimeout, sends no request and leaves the mapping alone.
C6_PullTimeout ==
    [][/\ (pc = "idle" /\ pc' = "pull_ready")
            => (data' = data /\ lastReq' = lastReq /\ nsent' = nsent)
       /\ (pc = "pull_ready" /\ ~ready /\ pc' # pc)
            => /\ pc' = "done"
               /\ result' = Raised("call_pull", "ServiceWaitTimeout")
               /\ data' = data
               /\ lastReq' = lastReq
               /\ nsent' = nsent]_vars

\* C6 witness: call_pull has timed out on a store that holds a parameter.
C6_Witness ==
    /\ pc = "done"
    /\ result = Raised("call_pull", "ServiceWaitTimeout")
    /\ "A" \in DOMAIN data

\* C7: get(name) returns the cached value when name is a key, raises KeyError
\* when it is not; the mapping is unchanged and nothing is sent.
C7_Get ==
    [][(pc = "idle" /\ pc' = "done" /\ args'.op \in {"getitem", "getattr"})
          => /\ IF args'.key \in DOMAIN data
                THEN result' = Returned(args'.op, data[args'.key])
                ELSE result' = Raised(args'.op, "KeyError")
             /\ data' = data
             /\ lastReq' = lastReq
             /\ nsent' = nsent]_vars

\* C7 witness: after a pull was sent, a get of a name the mapping does not
\* hold has raised KeyError while another name is cached.
C7_Witness ==
    /\ pc = "done"
    /\ result = Raised("getitem", "KeyError")
    /\ lastReq.srv = "pull"
    /\ InStore # {}

\* C8: every key of the mapping equals the name of the Parameter stored
\* under it.
C8_KeyIsName ==
    \A k \in DOMAIN data : data[k].kind = "Parameter" /\ data[k].name = k

\* ===========================================================================
\* Claims about the remote-call helpers (specification HelperSpec)
\* ===========================================================================
\* C9: a helper puts a request on the wire only in the step that follows an
\* observed readiness; when the wait timed out it raises ServiceWaitTimeout
\* and nothing is built or sent.
C9_HelperWaitsFirst ==
    [][/\ (lastReq' # lastReq \/ nsent' # nsent)
            => /\ pc = "helper_ready" /\ ready /\ pc' = "helper_spin"
               /\ nsent' = nsent + 1
               /\ lastReq'.srv \in {"list_parameters", "get_parameters",
                                    "set_parameters"}
       /\ (pc = "helper_ready" /\ ~ready /\ pc' # pc)
            => /\ pc' = "done"
               /\ result' = Raised(args.op, "ServiceWaitTimeout")
               /\ lastReq' = lastReq
               /\ nsent' = nsent
               /\ remote' = remote]_vars

\* C9 witness: call_set_parameters, given a parameter to set, has timed out
\* and no request was ever sent.
C9_Witness ==
    /\ pc = "done"
    /\ result = Raised("call_set_parameters", "ServiceWaitTimeout")
    /\ Len(args.parameters) > 0
    /\ lastReq = NoReq

\* ===========================================================================
\* Claims about the parameter files (specification FileSpec)
\* ===========================================================================
IsComment(row) == Len(row) > 0 /\ StartsWithHash(row[1])
HasWrongCountRow(c, text) ==
    \E i \in DOMAIN text : ~IsComment(text[i]) /\ Len(text[i]) # FieldCount(c)
LoadDone == pc = "done" /\ args.op = "load"

\* C10: a load of a text holding a non-comment row with the wrong field
\* count raises ValueError (the FormatError of the three formats) and leaves
\* the file's parameters as they were before the load.
C10_WrongCountFailsWhole ==
    (LoadDone /\ HasWrongCountRow(cls, args.text))
        => /\ result = Raised("load", "ValueError")
           /\ parameters = args.before

\* What does hold of such a load: it raises ValueError or, when an empty row
\* comes first among the offending rows, IndexError; the parameters stay as
\* they were.
WrongCountFailsSomehow ==
    (LoadDone /\ HasWrongCountRow(cls, args.text))
        => /\ result.exc \in {"ValueError", "IndexError"}
           /\ (result.exc = "IndexError"
                  => \E i \in DOMAIN args.text : args.text[i] = << >>)
           /\ parameters = args.before

SaveDone == pc = "done" /\ args.op = "save"

\* C11: for the space- and the comma-delimited format, saving a file that
\* holds one parameter (its value read by to_numeric) succeeds, and loading
\* the text it produced yields that one parameter again.
C11_RoundTrip ==
    (/\ SaveDone
     /\ cls \in {"MavProxyParam", "MissionPlannerParam"}
     /\ parameters # NoneVal
     /\ Len(parameters.items) = 1)
        => /\ result.exc = None
           /\ ParseFile(cls, args.file_, << >>).exc = None
           /\ ParseFile(cls, args.file_, << >>).parameters = parameters.items

\* C12: saving in the tab format succeeds and writes three header rows and
\* then, for each parameter of the file in order, the row (target system,
\* target component, name, value, type tag), the tag 6 for an integer and 9
\* for a float.
C12_QgcRows ==
    (SaveDone /\ cls = "QGroundControlParam" /\ parameters # NoneVal)
        => /\ result.exc = None
           /\ Len(args.file_) = 3 + Len(parameters.items)
           /\ \A i \in 1 .. 3 : IsComment(args.file_[i])
           /\ \A i \in DOMAIN parameters.items :
                 LET p == parameters.items[i]
                 IN  args.file_[3 + i] =
                         <<(<<"1">>), (<<"1">>), p.name, str(p.value),
                           IF p.value.kind = "int" THEN <<"6">> ELSE <<"9">> >>

\* C16 (as stated): while no pull request was even sent and no set was made
\* (the mapping holds no parameter: no step removes one), the mapping stays
\* without parameters; only a set can enter the first one.
C16_EmptyUntilPull ==
    [][(nsent = 0 /\ nsent' = 0 /\ InStore = {} /\ InStore' # {})
          => \E n \in Names : SetWriteOn(n)]_vars

\* C16 (amended): a parameter enters the mapping only by a set of its name,
\* by the handler storing a change event for its name, or in the step that
\* completes a pull; events delivered before any pull completed do enter.
C16_EntersBySetEventOrPull ==
    [][\A n \in Names :
          (n \notin DOMAIN data /\ n \in DOMAIN data')
              => \/ SetWriteOn(n)
                 \/ hpc = "store" /\ hpc' = "idle" /\ hmsg.param_id = n
                 \/ pc = "pull_spin" /\ pc' = "done"]_vars

\* C16 witness: the handler is about to store an event for "A" while the
\* mapping holds no parameter (so no set was made) and no pull request was
\* ever sent.
C16_Witness ==
    /\ hpc = "store"
    /\ hmsg.param_id = "A"
    /\ InStore = {}
    /\ nsent = 0
    /\ lastReq = NoReq

\* C17: the step that constructs the store and attaches its plugin leaves
\* the mapping empty (the owner reference does not become an entry) and
\* sends no request.
C17_FreshStoreEmpty ==
    [][(_parameters = None /\ _parameters' # None)
          => /\ data' = EmptyDict
             /\ lastReq' = lastReq
             /\ nsent' = nsent]_vars

\* C19: a set that fails has failed with ServiceWaitTimeout, its endpoint
\* not being ready, with the cache entry written and kept and no request
\* sent.
C19_SetFailsByTimeout ==
    [][(pc = "setitem_call" /\ pc' = "done" /\ result'.exc # None)
          => /\ result'.exc = "ServiceWaitTimeout"
             /\ data' = data
             /\ lastReq' = lastReq
             /\ nsent' = nsent]_vars

\* What does hold of a failing set: the step that raises keeps the mapping,
\* with the entry the set wrote, and sends nothing.
SetFailureKeepsWrite ==
    [][(pc = "setitem_call" /\ pc' = "done" /\ result'.exc # None)
          => /\ data' = data
             /\ lastReq' = lastReq
             /\ nsent' = nsent]_vars

\* C20: a first access that fails has failed with ServiceWaitTimeout, raised
\* by its pull, with the store and its subscription created and kept.
C20_FailedFirstAccess ==
    (pc = "done" /\ result.op = "param" /\ result.exc # None)
        => /\ result.exc = "ServiceWaitTimeout"
           /\ _parameters # None
           /\ _event_sub # None
           /\ subscribed

\* What does hold of the accesses after the first: each returns the store
\* that exists, performs no pull and changes nothing.
LaterAccessReturnsStore ==
    [][(pc = "idle" /\ _parameters # None /\ pc' = "done" /\ result'.op = "param")
          => /\ result' = Returned("param", StoreRef)
             /\ UNCHANGED <<storeVars, subscribed, wireVars>>]_vars

\* ===========================================================================
\* Claims about the store under fair local steps (specification FairSpec)
\* ===========================================================================
\* an event for name n is queued or in the handler's hands
PendingFor(n) ==
    \/ hpc = "store" /\ hmsg.param_id = n
    \/ \E i \in DOMAIN events : events[i].param_id = n
\* the value carried by the event for n that was published last
LastPending(n) ==
    IF \E i \in DOMAIN events : events[i].param_id = n
    THEN LET last == CHOOSE i \in DOMAIN events :
                         /\ events[i].param_id = n
                         /\ \A j \in DOMAIN events : events[j].param_id = n => j <= i
         IN  events[last].value.integer_value
    ELSE hmsg.value.integer_value
\* the cache entry of n is the value the remote holds
Synced(n) ==
    /\ n \in DOMAIN data
    /\ n \in DOMAIN remote
    /\ data[n] = Parameter(n, remote[n])
RemoteIs(n, v) == n \in DOMAIN remote /\ remote[n] = v

C18_PullReturns == (pc = "pull_spin") ~> (pc = "done")

\* ===========================================================================
\* Claims about the parser (specification ParseSpec)
\* ===========================================================================
\* C13: the value token of a data row becomes a float when it holds a
\* decimal point and reads as a float, an integer when it holds none and
\* reads as a signed integer, and makes the load raise ValueError otherwise;
\* "2.5" is the float 2.5, "1" the integer 1, "-2" the integer -2, "x" and
\* "." fail.  The same for the three formats.
C13_Infer ==
    (/\ LoadDone
     /\ Len(args.text) = 1
     /\ Len(args.text[1]) = FieldCount(cls)
     /\ ~IsComment(args.text[1]))
        => LET tok == args.text[1][ValueIndex(cls)]
               isFloat == HasDot(tok) /\ float(tok) # ValueErr
               isInt == ~HasDot(tok) /\ int(tok) # ValueErr
               got == parameters.items[1].value
           IN  /\ (isFloat \/ isInt) =>
                     /\ result.exc = None
                     /\ Len(parameters.items) = 1
                     /\ got.kind = IF isFloat THEN "float" ELSE "int"
                     /\ got = IF isFloat THEN float(tok) ELSE int(tok)
               /\ ~(isFloat \/ isInt) => result = Raised("load", "ValueError")
               /\ tok = <<"2", ".", "5">> => got = PyFloat(FALSE, 25, 1)
               /\ tok = <<"1">> => got = PyInt(1)
               /\ tok = <<"-", "2">> => got = PyInt(0 - 2)
               /\ tok \in {<<"x">>, <<".">>} => result.exc = "ValueError"

\* C13 witness: the tab format has read the token "2.5" as the float 2.5.
C13_Witness ==
    /\ LoadDone
    /\ cls = "QGroundControlParam"
    /\ Len(args.text) = 1
    /\ Len(args.text[1]) = 5
    /\ args.text[1][4] = <<"2", ".", "5">>
    /\ result.exc = None
    /\ parameters.items[1].value = PyFloat(FALSE, 25, 1)

NotComment(row) == ~IsComment(row)

\* C14: a load gives what the load of the same text without its comment
\* rows (first field starting with '#', of any field count and content)
\* gives: the same parameters in the same order, or the same exception.
C14_CommentsSkipped ==
    LoadDone
        => LET r == ParseFile(cls, SelectSeq(args.text, NotComment), << >>)
           IN  /\ result.exc = r.exc
               /\ r.exc = None => parameters = PyDict(r.parameters)

\* C14 witness: a comment row of three fields stands between two valid data
\* rows, and the load has yielded the two parameters in their order.
C14_Witness ==
    /\ LoadDone
    /\ Len(args.text) = 3
    /\ ~IsComment(args.text[1])
    /\ IsComment(args.text[2]) /\ Len(args.text[2]) = 3
    /\ ~IsComment(args.text[3])
    /\ result.exc = None
    /\ Len(parameters.items) = 2
    /\ parameters.items[1].name = <<"A">>
    /\ parameters.items[2].name = <<"B">>

====
